---- MODULE Spec2Model ----
(***************************************************************************)
(* Model of ui/app/contexts/metametrics.new.js: the MetaMetricsProvider    *)
(* page-tracking effect and the trackEvent callback.                       *)
(*                                                                         *)
(* A pathname is the sequence of its "/"-separated segments after the      *)
(* leading slash: "/" is <<"">>, "/unlock" is <<"unlock">>, "/unlock/" is  *)
(* <<"unlock", "">>.  An event name is a sequence of characters.           *)
(***************************************************************************)
EXTENDS Integers, Sequences, FiniteSets, TLC

\* ---------------------------------------------------------------- bounds
MaxSendCount == 2

\* ------------------------------------------------ externally owned values
Null == "<null>"
METAMETRICS_ANONYMOUS_ID == "0x0000000000000000"
UserIds == {"0xabc"}
Networks == {"1", "3"}
Hashes == {"", "#send"}

\* Route table, in insertion order.  The table is owned by
\* helpers/constants/routes; these entries are representative of its shapes:
\* literal routes, routes with parameters (among them account and address),
\* and two patterns that match the same pathname.
PATH_NAME_MAP_ENTRIES ==
  << << <<"">>, "Home" >>,
     << <<"unlock">>, "Unlock Page" >>,
     << <<"initialize", "welcome">>, "Welcome" >>,
     << <<"confirm-transaction", ":id">>, "Confirmation Root Page" >>,
     << <<"contact", ":address">>, "View Contact Settings Page" >>,
     << <<"account", ":account", ":id">>, "Account Details" >>,
     << <<"account", "new", ":id">>, "Add New Account" >> >>

PATH_NAME_MAP(path) ==
  LET i == CHOOSE j \in 1..Len(PATH_NAME_MAP_ENTRIES) : PATH_NAME_MAP_ENTRIES[j][1] = path
  IN  PATH_NAME_MAP_ENTRIES[i][2]

PATHS_TO_CHECK == [i \in 1..Len(PATH_NAME_MAP_ENTRIES) |-> PATH_NAME_MAP_ENTRIES[i][1]]

Pathnames ==
  { <<"">>, <<"unlock">>, <<"UNLOCK">>, <<"unlock", "">>,
    <<"initialize", "welcome">>, <<"initialize", "unknown">>, <<"initialized">>,
    <<"confirm-transaction">>, <<"confirm-transaction", "7">>,
    <<"contact", "0xA1">>, <<"account", "acct1", "7">>, <<"account", "new", "7">>,
    <<"restore">> }

\* ------------------------------------------------------ react-router matchPath
ParamNames == (":id" :> "id") @@ (":address" :> "address") @@ (":account" :> "account")
IsParam(seg) == seg \in DOMAIN ParamNames

\* path-to-regexp is case-insensitive unless `sensitive` is set
Lower(seg) == IF seg = "UNLOCK" THEN "unlock" ELSE seg

\* exact: true, strict: true -- same number of segments, trailing slash kept
MatchesPattern(pathname, pattern) ==
  /\ Len(pathname) = Len(pattern)
  /\ \A i \in 1..Len(pattern) :
       IF IsParam(pattern[i]) THEN pathname[i] # ""
       ELSE Lower(pathname[i]) = Lower(pattern[i])

MatchParams(pathname, pattern) ==
  LET idx == { i \in 1..Len(pattern) : IsParam(pattern[i]) }
  IN  [ k \in { ParamNames[pattern[i]] : i \in idx } |->
          pathname[CHOOSE i \in idx : ParamNames[pattern[i]] = k] ]

NoMatch == [matched |-> FALSE, path |-> <<>>, params |-> <<>>]

\* the first pattern of `paths` that matches wins
matchPath(pathname, paths) ==
  LET hits == { i \in 1..Len(paths) : MatchesPattern(pathname, paths[i]) }
  IN  IF hits = {} THEN NoMatch
      ELSE LET i == CHOOSE j \in hits : \A k \in hits : j <= k
           IN  [matched |-> TRUE, path |-> paths[i], params |-> MatchParams(pathname, paths[i])]

\* lodash omit on a flat object
omit(obj, keys) == [ k \in (DOMAIN obj) \ keys |-> obj[k] ]

\* ------------------------------------------------ page-tracking useEffect
\* location.pathname.startsWith('/initialize'): of the modelled segments,
\* those having "initialize" as a prefix
startsWithInitialize(pathname) == pathname[1] \in {"initialize", "initialized"}

\* variant: the consent check dropped
effectProcessed_NoGate(loc, pim) == TRUE

effectProcessed(loc, pim) == startsWithInitialize(loc.pathname) \/ pim

\* JavaScript truthiness and nullishness of an identifier value
Truthy(v) == v \notin {Null, ""}
Nullish(v) == v = Null

\* variant: the trait is always userId
pageIdentity_AlwaysUserId(id) == ("userId" :> id)

pageIdentity(id) ==
  LET idTrait == IF Truthy(id) THEN "userId" ELSE "anonymousId"
      idValue == IF Nullish(id) THEN METAMETRICS_ANONYMOUS_ID ELSE id
  IN  (idTrait :> idValue)

\* variant: only address is omitted
pageProperties_KeepAccount(loc, match) ==
  [ url |-> match.path, hash |-> loc.hash, params |-> omit(match.params, {"address"}) ]

pageProperties(loc, match) ==
  [ url |-> match.path, hash |-> loc.hash,
    params |-> omit(match.params, {"account", "address"}) ]

\* variant: the name is looked up by the pathname instead of the matched pattern
pagePayload_NameByPathname(loc, id, match) ==
  pageIdentity(id)
    @@ [ name |-> IF \E i \in 1..Len(PATH_NAME_MAP_ENTRIES) : PATH_NAME_MAP_ENTRIES[i][1] = loc.pathname
                  THEN PATH_NAME_MAP(loc.pathname) ELSE "<undefined>",
         properties |-> pageProperties(loc, match) ]

pagePayload(loc, id, match) ==
  pageIdentity(id) @@ [ name |-> PATH_NAME_MAP(match.path),
                        properties |-> pageProperties(loc, match) ]

\* variant: the special case compares against the route with a trailing slash
isConfirmTransactionRoot_TrailingSlash(pathname) == pathname = <<"confirm-transaction", "">>

isConfirmTransactionRoot(pathname) == pathname = <<"confirm-transaction">>

\* one run of the effect: the segment.page calls and captureMessage calls it makes
PageEffect(loc, pim, id) ==
  IF effectProcessed(loc, pim)
  THEN LET match == matchPath(loc.pathname, PATHS_TO_CHECK)
       IN  IF match.matched
           THEN [page |-> << pagePayload(loc, id, match) >>, messages |-> <<>>]
           ELSE IF ~isConfirmTransactionRoot(loc.pathname)
                THEN [page |-> <<>>,
                      messages |-> << [pathname |-> loc.pathname,
                                       text |-> "would have issued a page track event to segment, but no route match was found"] >>]
                ELSE [page |-> <<>>, messages |-> <<>>]
  ELSE [page |-> <<>>, messages |-> <<>>]

\* ------------------------------------------------------------- state
VARIABLES
  location,                  \* useLocation(): [pathname, hash]
  participateInMetaMetrics,  \* state.metamask.participateInMetaMetrics
  metaMetricsId,             \* state.metamask.metaMetricsId, Null when absent
  metaMetricsSendCount,      \* state.metamask.metaMetricsSendCount
  network,                   \* getCurrentNetworkId
  trackableSendCounts,       \* the send counts the trackability predicate accepts
  pageCalls,                 \* segment.page payloads of the last operation
  messages,                  \* captureMessage calls of the last operation
  trackCalls,                \* segment.track payloads of the last operation
  thrown,                    \* error raised by the last operation, "none" if none
  lastOp,                    \* the last operation
  config                     \* argument of the last operation when it is a trackEvent call

vars == << location, participateInMetaMetrics, metaMetricsId, metaMetricsSendCount,
           network, trackableSendCounts, pageCalls, messages, trackCalls, thrown,
           lastOp, config >>

envVars == << participateInMetaMetrics, metaMetricsId, metaMetricsSendCount,
              network, trackableSendCounts >>

\* ------------------------------------------------------------- trackEvent
Chars(w) ==
  CASE w = "send"    -> <<"s", "e", "n", "d">>
    [] w = "confirm" -> <<"c", "o", "n", "f", "i", "r", "m">>

StartsWith(s, prefix) == Len(s) >= Len(prefix) /\ SubSeq(s, 1, Len(prefix)) = prefix

Events ==
  { <<>>,
    <<"s", "e", "n", "d", "E", "t", "h">>,
    <<"c", "o", "n", "f", "i", "r", "m">>,
    <<"S", "e", "n", "d">>,
    <<"r", "e", "s", "e", "n", "d">>,
    <<"U", "n", "l", "o", "c", "k">> }

Opt(key, values) == { <<>> } \cup { (key :> v) : v \in values }

PropertiesObjects ==
  { <<>>,
    ("gas" :> "21000"),
    ("revenue" :> "5") @@ ("currency" :> "usd") @@ ("value" :> "9") @@ ("gas" :> "21000"),
    ("value" :> "9") @@ ("category" :> "Mine") @@ ("exclude_meta_metrics_id" :> FALSE) }

\* the calls made: every combination of event, category, isOptIn and
\* excludeMetaMetricsId, and, for two event names, every combination of
\* isOptIn, properties and a revenue field on the config itself
Configs ==
  { e @@ c @@ o @@ x :
      e \in Opt("event", Events), c \in Opt("category", {"", "Navigation"}),
      o \in Opt("isOptIn", BOOLEAN), x \in Opt("excludeMetaMetricsId", BOOLEAN) }
  \cup
  { ("event" :> e) @@ ("category" :> "Navigation") @@ o @@ p @@ r :
      e \in { <<"s", "e", "n", "d", "E", "t", "h">>, <<"U", "n", "l", "o", "c", "k">> },
      o \in Opt("isOptIn", BOOLEAN), p \in Opt("properties", PropertiesObjects),
      r \in Opt("revenue", {"5"}) }

Has(cfg, key) == key \in DOMAIN cfg

\* !event, !category
eventMissing(cfg) == ~Has(cfg, "event") \/ cfg.event = <<>>
\* variant: only an absent category is rejected
categoryMissing_AbsentOnly(cfg) == ~Has(cfg, "category")
categoryMissing(cfg) == ~Has(cfg, "category") \/ cfg.category = ""

\* destructuring defaults
isOptInOf(cfg) == IF Has(cfg, "isOptIn") THEN cfg.isOptIn ELSE FALSE
propertiesOf(cfg) == IF Has(cfg, "properties") THEN cfg.properties ELSE <<>>

\* event.match(/^send|^confirm/u)
isSendFlow(event) == StartsWith(event, Chars("send")) \/ StartsWith(event, Chars("confirm"))

sendCountIsTrackable(sendCount) == sendCount \in trackableSendCounts

\* variant: the predicate is asked about the current send count
excludeMetaMetricsId_CurrentCount(cfg, sendCount) ==
  LET given == IF Has(cfg, "excludeMetaMetricsId") THEN cfg.excludeMetaMetricsId ELSE FALSE
  IN  IF isSendFlow(cfg.event) /\ ~sendCountIsTrackable(sendCount) THEN TRUE ELSE given

excludeMetaMetricsId(cfg, sendCount) ==
  LET given == IF Has(cfg, "excludeMetaMetricsId") THEN cfg.excludeMetaMetricsId ELSE FALSE
  IN  IF isSendFlow(cfg.event) /\ ~sendCountIsTrackable(sendCount + 1) THEN TRUE ELSE given

trackIdentity(exclude, id) ==
  LET idTrait == IF exclude THEN "anonymousId" ELSE "userId"
      idValue == IF exclude THEN METAMETRICS_ANONYMOUS_ID ELSE id
  IN  (idTrait :> idValue)

\* variant: value is not omitted
trackProperties_KeepValue(cfg, exclude) ==
  ("category" :> cfg.category) @@ ("exclude_meta_metrics_id" :> exclude)
    @@ omit(propertiesOf(cfg), {"revenue", "currency"})

\* { ...omit(properties, [...]), category, exclude_meta_metrics_id }: later keys win
trackProperties(cfg, exclude) ==
  ("category" :> cfg.category) @@ ("exclude_meta_metrics_id" :> exclude)
    @@ omit(propertiesOf(cfg), {"revenue", "currency", "value"})

trackContext(net) ==
  [ version |-> "8.1.3", environment |-> "production", platform |-> "Chrome",
    network |-> net, environment_type |-> "popup" ]

\* variant: isOptIn is ignored
consentGate_ConsentOnly(pim, cfg) == pim
consentGate(pim, cfg) == pim \/ isOptInOf(cfg)

trackPayload(cfg, id, sendCount, net) ==
  LET exclude == excludeMetaMetricsId(cfg, sendCount)
  IN  trackIdentity(exclude, id)
        @@ [ event |-> cfg.event, properties |-> trackProperties(cfg, exclude),
             context |-> trackContext(net) ]

\* one call of trackEvent: the error it throws and the segment.track calls it makes
trackEvent(cfg, pim, id, sendCount, net) ==
  IF eventMissing(cfg)
  THEN [thrown |-> "MetaMetrics trackEvent function must be provided a payload with an \"event\" key",
        track |-> <<>>]
  ELSE IF categoryMissing(cfg)
  THEN [thrown |-> "MetaMetrics events must be provided a category", track |-> <<>>]
  ELSE IF consentGate(pim, cfg)
  THEN [thrown |-> "none", track |-> << trackPayload(cfg, id, sendCount, net) >>]
  ELSE [thrown |-> "none", track |-> <<>>]

\* ------------------------------------------------------------- behaviour
InitialLocation == [pathname |-> <<"">>, hash |-> ""]

Init ==
  /\ location = InitialLocation
  /\ \/ participateInMetaMetrics = FALSE /\ metaMetricsId = Null
     \/ participateInMetaMetrics = TRUE /\ metaMetricsId \in UserIds
  /\ metaMetricsSendCount = 0
  /\ network \in Networks
  /\ trackableSendCounts \in SUBSET (1..(MaxSendCount + 1))
  /\ LET out == PageEffect(location, participateInMetaMetrics, metaMetricsId)
     IN  /\ pageCalls = out.page
         /\ messages = out.messages
  /\ trackCalls = <<>>
  /\ thrown = "none"
  /\ lastOp = "mount"
  /\ config = <<>>

\* history push/replace: a new location object, so the effect runs
Navigate(pathname, hash) ==
  /\ location' = [pathname |-> pathname, hash |-> hash]
  /\ LET out == PageEffect(location', participateInMetaMetrics, metaMetricsId)
     IN  /\ pageCalls' = out.page
         /\ messages' = out.messages
  /\ trackCalls' = <<>>
  /\ thrown' = "none"
  /\ lastOp' = "navigate"
  /\ config' = <<>>
  /\ UNCHANGED envVars

\* the user opts in or out: the id is assigned with consent and removed
\* without it; both are effect dependencies, so the effect runs again
SetParticipateInMetaMetrics(bool, newId) ==
  /\ bool # participateInMetaMetrics
  /\ participateInMetaMetrics' = bool
  /\ metaMetricsId' = IF bool THEN newId ELSE Null
  /\ LET out == PageEffect(location, participateInMetaMetrics', metaMetricsId')
     IN  /\ pageCalls' = out.page
         /\ messages' = out.messages
  /\ trackCalls' = <<>>
  /\ thrown' = "none"
  /\ lastOp' = "setParticipate"
  /\ config' = <<>>
  /\ UNCHANGED << location, metaMetricsSendCount, network, trackableSendCounts >>

\* not an effect dependency: re-render only
IncrementSendCount ==
  /\ metaMetricsSendCount < MaxSendCount
  /\ metaMetricsSendCount' = metaMetricsSendCount + 1
  /\ pageCalls' = <<>> /\ messages' = <<>> /\ trackCalls' = <<>> /\ thrown' = "none"
  /\ lastOp' = "sendCount"
  /\ config' = <<>>
  /\ UNCHANGED << location, participateInMetaMetrics, metaMetricsId, network,
                  trackableSendCounts >>

SetNetwork(net) ==
  /\ net # network
  /\ network' = net
  /\ pageCalls' = <<>> /\ messages' = <<>> /\ trackCalls' = <<>> /\ thrown' = "none"
  /\ lastOp' = "network"
  /\ config' = <<>>
  /\ UNCHANGED << location, participateInMetaMetrics, metaMetricsId, metaMetricsSendCount,
                  trackableSendCounts >>

TrackEvent(cfg) ==
  /\ LET out == trackEvent(cfg, participateInMetaMetrics, metaMetricsId,
                           metaMetricsSendCount, network)
     IN  /\ trackCalls' = out.track
         /\ thrown' = out.thrown
  /\ config' = cfg
  /\ pageCalls' = <<>> /\ messages' = <<>>
  /\ lastOp' = "trackEvent"
  /\ UNCHANGED << location, envVars >>

DoNavigate == \E p \in Pathnames, h \in Hashes : Navigate(p, h)
DoSetParticipate == \E b \in BOOLEAN, i \in UserIds : SetParticipateInMetaMetrics(b, i)
DoSetNetwork == \E n \in Networks : SetNetwork(n)
DoTrackEvent == \E c \in Configs : TrackEvent(c)

\* page tracking under navigation and consent changes
Next == DoNavigate \/ DoSetParticipate
Spec == Init /\ [][Next]_vars

\* event tracking under changes of the state trackEvent reads
NextTrack == DoSetParticipate \/ IncrementSendCount \/ DoSetNetwork \/ DoTrackEvent
SpecTrack == Init /\ [][NextTrack]_vars

\* ------------------------------------------------------------- properties

\* C1 (as stated): every navigation to a path present in the route table
\* results in exactly one segment.page call, named by the table's entry for
\* the matched pattern.
C1_Original ==
  LET match == matchPath(location.pathname, PATHS_TO_CHECK)
  IN  (lastOp = "navigate" /\ match.matched) =>
        /\ Len(pageCalls) = 1
        /\ pageCalls[1].name = PATH_NAME_MAP(match.path)

\* C1 (amended): every run of the page-tracking effect (after mount, after a
\* navigation, after a change of consent flag and user id) at a path present
\* in the route table makes exactly one segment.page call, named by the
\* table's entry for the matched pattern, when the path starts with
\* /initialize or the consent flag is true, and makes no segment.page call
\* otherwise.
C1_PageCallPerEffectRun ==
  LET match == matchPath(location.pathname, PATHS_TO_CHECK)
  IN  (lastOp \in {"mount", "navigate", "setParticipate"} /\ match.matched) =>
        IF startsWithInitialize(location.pathname) \/ participateInMetaMetrics
        THEN /\ Len(pageCalls) = 1
             /\ pageCalls[1].name = PATH_NAME_MAP(match.path)
        ELSE pageCalls = <<>>

C1_Witness ==
  /\ lastOp = "navigate"
  /\ location.pathname = <<"confirm-transaction", "7">>
  /\ Len(pageCalls) = 1
  /\ pageCalls[1].name = "Confirmation Root Page"

\* C2: a trackEvent call whose config has no event, an empty event, no
\* category or an empty category raises an error and makes no segment.track
\* call, whatever the rest of the config and the state are.
C2_MissingEventOrCategoryThrows ==
  (/\ lastOp = "trackEvent"
   /\ \/ "event" \notin DOMAIN config
      \/ config.event = <<>>
      \/ "category" \notin DOMAIN config
      \/ config.category = "") =>
    (thrown # "none" /\ trackCalls = <<>>)

C2_Witness ==
  /\ lastOp = "trackEvent"
  /\ "event" \in DOMAIN config /\ config.event # <<>>
  /\ "category" \in DOMAIN config /\ config.category = ""
  /\ "isOptIn" \in DOMAIN config /\ config.isOptIn
  /\ participateInMetaMetrics
  /\ thrown = "MetaMetrics events must be provided a category"
  /\ trackCalls = <<>>

\* C3: a trackEvent call with event and category present makes exactly one
\* segment.track call when the consent flag or the call's isOptIn is true,
\* and none when both are false (isOptIn omitted counts as false).
C3_ConsentGate ==
  (/\ lastOp = "trackEvent"
   /\ "event" \in DOMAIN config /\ config.event # <<>>
   /\ "category" \in DOMAIN config /\ config.category # "") =>
    IF participateInMetaMetrics \/ ("isOptIn" \in DOMAIN config /\ config.isOptIn)
    THEN Len(trackCalls) = 1 /\ thrown = "none"
    ELSE trackCalls = <<>>

C3_Witness ==
  /\ lastOp = "trackEvent"
  /\ ~participateInMetaMetrics
  /\ "isOptIn" \in DOMAIN config /\ config.isOptIn
  /\ Len(trackCalls) = 1

\* C4: the params of every segment.page call have no account and no address
\* key, and carry every other matched route parameter unchanged.
C4_NoAccountOrAddressParam ==
  (lastOp \in {"mount", "navigate", "setParticipate"} /\ pageCalls # <<>>) =>
    LET params == pageCalls[1].properties.params
        matched == matchPath(location.pathname, PATHS_TO_CHECK).params
    IN  /\ "account" \notin DOMAIN params
        /\ "address" \notin DOMAIN params
        /\ \A k \in (DOMAIN matched) \ {"account", "address"} :
             k \in DOMAIN params /\ params[k] = matched[k]

C4_Witness ==
  /\ lastOp = "navigate"
  /\ location.pathname = <<"account", "acct1", "7">>
  /\ Len(pageCalls) = 1
  /\ DOMAIN pageCalls[1].properties.params = {"id"}
  /\ pageCalls[1].properties.params["id"] = "7"

\* C5: the properties of every segment.track call have no revenue, currency
\* or value key; every other key of the caller's properties is forwarded
\* (with the caller's value, except that category and exclude_meta_metrics_id
\* are set by trackEvent).
C5_NoRevenueCurrencyValue ==
  (lastOp = "trackEvent" /\ trackCalls # <<>>) =>
    LET sent == trackCalls[1].properties
        given == IF "properties" \in DOMAIN config THEN config.properties ELSE <<>>
    IN  /\ (DOMAIN sent) \cap {"revenue", "currency", "value"} = {}
        /\ \A k \in (DOMAIN given) \ {"revenue", "currency", "value"} :
             /\ k \in DOMAIN sent
             /\ k \notin {"category", "exclude_meta_metrics_id"} => sent[k] = given[k]

C5_Witness ==
  /\ lastOp = "trackEvent"
  /\ "properties" \in DOMAIN config
  /\ {"revenue", "currency", "value", "gas"} \subseteq DOMAIN config.properties
  /\ "revenue" \in DOMAIN config
  /\ Len(trackCalls) = 1
  /\ DOMAIN trackCalls[1].properties = {"gas", "category", "exclude_meta_metrics_id"}

\* C6: an emitted event whose name begins with send or confirm, sent while
\* the trackability predicate rejects the next send count, is identified by
\* anonymousId with the anonymous identifier, not by userId, and has
\* exclude_meta_metrics_id true, whatever excludeMetaMetricsId the caller gave.
C6_SendFlowAnonymized ==
  (/\ lastOp = "trackEvent"
   /\ trackCalls # <<>>
   /\ \/ StartsWith(config.event, Chars("send"))
      \/ StartsWith(config.event, Chars("confirm"))
   /\ (metaMetricsSendCount + 1) \notin trackableSendCounts) =>
    LET payload == trackCalls[1]
    IN  /\ "anonymousId" \in DOMAIN payload
        /\ payload.anonymousId = METAMETRICS_ANONYMOUS_ID
        /\ "userId" \notin DOMAIN payload
        /\ payload.properties["exclude_meta_metrics_id"] = TRUE

C6_Witness ==
  /\ lastOp = "trackEvent"
  /\ Len(trackCalls) = 1
  /\ config.event = Chars("confirm")
  /\ "excludeMetaMetricsId" \in DOMAIN config /\ config.excludeMetaMetricsId = FALSE
  /\ participateInMetaMetrics /\ metaMetricsId # Null
  /\ metaMetricsSendCount = 1
  /\ 2 \notin trackableSendCounts
  /\ "anonymousId" \in DOMAIN trackCalls[1]

\* C7: an effect run that is processed (path starting with /initialize, or
\* consent true) at a path matching no route: unless the path is
\* /confirm-transaction, exactly one diagnostic message is reported, no page
\* event is emitted and nothing is raised; at /confirm-transaction there is
\* neither a diagnostic nor a page event.
C7_RouteMissDiagnostic ==
  (/\ lastOp \in {"mount", "navigate", "setParticipate"}
   /\ startsWithInitialize(location.pathname) \/ participateInMetaMetrics
   /\ \A i \in 1..Len(PATHS_TO_CHECK) : ~MatchesPattern(location.pathname, PATHS_TO_CHECK[i])) =>
    IF location.pathname # <<"confirm-transaction">>
    THEN /\ Len(messages) = 1
         /\ messages[1].pathname = location.pathname
         /\ pageCalls = <<>>
         /\ thrown = "none"
    ELSE messages = <<>> /\ pageCalls = <<>>

C7_Witness ==
  /\ lastOp = "navigate"
  /\ location.pathname = <<"unlock", "">>
  /\ participateInMetaMetrics
  /\ Len(messages) = 1
  /\ pageCalls = <<>>

\* C8: every page event carries exactly one identity trait: userId with the
\* stored user identifier when one is known, otherwise anonymousId with the
\* anonymous identifier.
C8_PageIdentity ==
  (lastOp \in {"mount", "navigate", "setParticipate"} /\ pageCalls # <<>>) =>
    LET payload == pageCalls[1]
    IN  IF metaMetricsId # Null
        THEN /\ "userId" \in DOMAIN payload
             /\ payload.userId = metaMetricsId
             /\ "anonymousId" \notin DOMAIN payload
        ELSE /\ "anonymousId" \in DOMAIN payload
             /\ payload.anonymousId = METAMETRICS_ANONYMOUS_ID
             /\ "userId" \notin DOMAIN payload

C8_Witness ==
  /\ lastOp = "navigate"
  /\ location.pathname = <<"initialize", "welcome">>
  /\ ~participateInMetaMetrics /\ metaMetricsId = Null
  /\ Len(pageCalls) = 1
  /\ "anonymousId" \in DOMAIN pageCalls[1]

\* C9: an effect run at a path that does not start with /initialize while
\* the consent flag is false produces no segment.page call and no diagnostic
\* message, also right after the user opts out.
C9_NoOutputWithoutConsent ==
  (/\ lastOp \in {"mount", "navigate", "setParticipate"}
   /\ location.pathname[1] \notin {"initialize", "initialized"}
   /\ ~participateInMetaMetrics) =>
    (pageCalls = <<>> /\ messages = <<>>)

C9_Witness ==
  /\ lastOp = "setParticipate"
  /\ ~participateInMetaMetrics
  /\ location.pathname = <<"unlock">>
  /\ pageCalls = <<>> /\ messages = <<>>

\* C10: every segment.track call carries either anonymousId equal to the
\* anonymous identifier or userId equal to a user identifier that is present.
C10_TrackIdentityWellFormed ==
  (lastOp = "trackEvent" /\ trackCalls # <<>>) =>
    LET payload == trackCalls[1]
    IN  \/ "anonymousId" \in DOMAIN payload /\ payload.anonymousId = METAMETRICS_ANONYMOUS_ID
        \/ "userId" \in DOMAIN payload /\ payload.userId # Null
====
